---- MODULE Spec2Model ----
(***************************************************************************)
(* Model of launch.actions.ExecuteRemoteProcess: one controller (action    *)
(* instance), the launch context it is executed in, the asyncio task that  *)
(* monitors the process, and the process it manages.                       *)
(*                                                                         *)
(* Source: src/launch/launch/actions/execute_remote_process.py.            *)
(* The body of the try block of __execute_process (opening the transport,  *)
(* spawning, waiting for the exit), the shutdown handlers and the timer    *)
(* callbacks are not in the source tree; they are modelled from spec.md    *)
(* sections 4.3-4.5 and are marked as such where they are defined.         *)
(***************************************************************************)
EXTENDS Integers, FiniteSets, Sequences, TLC

(* ---------------------------------------------------------------- bounds *)

\* Largest finite retry budget explored; maxRetries ranges over -1..MaxRetriesBound.
MaxRetriesBound == 2

\* Number of calls of execute() explored on the one controller.
MaxExecuteCalls == 2

\* Commands a direct client runs on its SSHConnection.
MaxExecs == 2

\* Calls of close_connection a direct client makes on its SSHConnection.
MaxCloseCalls == 2

\* Runs of __cleanup explored when the operation is applied again.
MaxCleanupRuns == 2

\* Output notifications explored in one attempt.
MaxOutputs == 2

\* Chunks the process writes, both streams together, in one behaviour.
MaxChunks == 3

\* Number of exits the managed process takes on its own (not requested) in
\* one behaviour: enough for every finite budget to be used up.
MaxExits == MaxRetriesBound + 1

(* ----------------------------------------------------------------- state *)

VARIABLES
    executed,             \* self.__executed
    process_event_args,   \* self.__process_event_args: "None" | "args"
    is_shutdown,          \* context.is_shutdown
    handlers,             \* event handlers of this controller registered in the context
    completed_future,     \* self.__completed_future: "None" | "pending" | "done"
    shutdown_future,      \* self.__shutdown_future:  "None" | "pending" | "done"
    sigterm_timer,        \* self.__sigterm_timer: "None" | "armed" | "fired" | "cancelled"
    sigkill_timer,        \* self.__sigkill_timer: "None" | "armed" | "fired" | "cancelled"
    transport,            \* self._subprocess_transport: "None" | "open" | "closed"
    respawn,              \* self.__respawn
    respawn_max_retries,  \* self.__respawn_max_retries
    respawn_retries,      \* self.__respawn_retries
    respawn_delay,        \* self.__respawn_delay (0 or 1 time unit)
    pc,                   \* position of the __execute_process task
    state,                \* state of the current attempt (ExecutionSession.state)
    attemptNumber,        \* number of __execute_process tasks created so far
    lastResult,           \* outcome of the last execute() call
    executeCalls,         \* number of execute() calls made
    started,              \* "started" notifications emitted
    relaunches,           \* tasks created by the respawn branch
    exits,                \* exits the process took on its own
    kills,                \* forceful kills issued
    cleanups,             \* runs of __cleanup
    resolves,             \* calls of completed_future.set_result
    startFailed,          \* some attempt failed to start
    exitedInGrace,        \* the process exited while the grace timer was armed
    delayInterrupted,     \* the shutdown future was resolved during a respawn delay
    fault,                \* an error escaped the task or a callback
    emitted,              \* notifications of the current attempt, in order
    connection,           \* per user: state of SSHConnection.__connection
    held,                 \* per user: the constructor returned an SSHConnection
    execs,                \* per user: commands executed on the connection
    closeCalls,           \* per user: calls of close_connection
    userDone,             \* per user: the using function has returned or raised
    sshFault,             \* per user: a call on the connection raised
    text,                 \* per stream: the characters the process wrote
    buffer,               \* per stream: self.__stdout_buffer / self.__stderr_buffer
    delivered,            \* per stream: the lines handed to the stream's logger
    flushed,              \* the exit handler flushed the buffers
    chunks                \* chunks written so far

vars == <<executed, process_event_args, is_shutdown, handlers, completed_future,
          shutdown_future, sigterm_timer, sigkill_timer, transport, respawn,
          respawn_max_retries, respawn_retries, respawn_delay, pc, state,
          attemptNumber, lastResult, executeCalls, started, relaunches, exits,
          kills, cleanups, resolves, startFailed, exitedInGrace, delayInterrupted, fault,
          emitted, connection, held, execs, closeCalls, userDone, sshFault,
          text, buffer, delivered, flushed, chunks>>

\* The state of the SSH connections.
sshVars == <<connection, held, execs, closeCalls, userDone, sshFault>>

\* The state of the controller, its context and its process.
lifecycleVars == <<executed, process_event_args, is_shutdown, handlers,
                   completed_future, shutdown_future, sigterm_timer,
                   sigkill_timer, transport, respawn, respawn_max_retries,
                   respawn_retries, respawn_delay, pc, state, attemptNumber,
                   lastResult, executeCalls, started, relaunches, exits, kills,
                   cleanups, resolves, startFailed, exitedInGrace, delayInterrupted, fault,
                   emitted>>

\* The state of the output routing of one attempt.
routerVars == <<text, buffer, delivered, flushed, chunks>>

\* Everything but the controller's state, everything but the connections' and
\* everything but the output routing's.
nonLifecycleVars == <<sshVars, routerVars>>
nonSshVars == <<lifecycleVars, routerVars>>
nonRouterVars == <<lifecycleVars, sshVars>>

\* The users of SSHConnection: a direct client of the class,
\* RemoteSubstitution.perform and ExecuteSshProcess.exec_remote_command.
ConnUsers == {"client", "perform", "ssh_process"}

\* The variables execute() can write besides the call bookkeeping.
controllerVars == <<handlers, completed_future, shutdown_future, sigterm_timer,
                    sigkill_timer, transport, respawn, respawn_max_retries,
                    respawn_retries, respawn_delay, pc, state, attemptNumber,
                    started, relaunches, exits, kills, cleanups, resolves,
                    startFailed, exitedInGrace, delayInterrupted, fault, emitted>>

\* The notifications of an attempt (spec 4.5 and 4.6).
Notifications == {"started", "output", "exited"}

\* The two output streams of a process.
Streams == {"stdout", "stderr"}

\* The characters of the output: letters and the line terminator.
Chars == {"a", "b", "nl"}

\* The chunks a process writes: a partial line, a terminated line, a bare
\* terminator, and a line followed by the beginning of the next.
Chunks == {<<"a">>, <<"b", "nl">>, <<"nl">>, <<"a", "nl", "b">>}

\* The five handlers execute() registers.
EventHandlers ==
    {"ShutdownProcess", "OnProcessIO", "OnShutdown", "OnProcessExit", "FlushBuffers"}

\* The statement of execute()'s try block that raises, if any.
SetupFailPoints ==
    {"none", "completed_future", "shutdown_future", "loggers", "create_task"}

FutureStates == {"None", "pending", "done"}
TimerStates == {"None", "armed", "fired", "cancelled"}
TaskStates == {"none", "scheduled", "starting", "running", "exited", "delay", "done"}
AttemptStates ==
    {"Pending", "Starting", "Running", "ExitRequested", "Exiting", "Exited", "Failed"}
TerminalStates == {"Exited", "Failed"}

TypeOK ==
    /\ executed \in BOOLEAN
    /\ process_event_args \in {"None", "args"}
    /\ is_shutdown \in BOOLEAN
    /\ handlers \subseteq EventHandlers
    /\ completed_future \in FutureStates
    /\ shutdown_future \in FutureStates
    /\ sigterm_timer \in TimerStates
    /\ sigkill_timer \in TimerStates
    /\ transport \in {"None", "open", "closed"}
    /\ respawn \in BOOLEAN
    /\ respawn_max_retries \in -1..MaxRetriesBound
    /\ respawn_retries \in Nat
    /\ respawn_delay \in {0, 1}
    /\ pc \in TaskStates
    /\ state \in AttemptStates
    /\ attemptNumber \in Nat
    /\ lastResult \in {"none", "ok", "noop", "RuntimeError", "raised"}
    /\ executeCalls \in 0..MaxExecuteCalls
    /\ started \in Nat /\ relaunches \in Nat /\ exits \in Nat /\ kills \in Nat
    /\ cleanups \in Nat /\ resolves \in Nat
    /\ startFailed \in BOOLEAN /\ exitedInGrace \in BOOLEAN /\ fault \in BOOLEAN
    /\ delayInterrupted \in BOOLEAN
    /\ emitted \in Seq(Notifications)
    /\ connection \in [ConnUsers -> {"none", "failed", "open", "closed"}]
    /\ held \in [ConnUsers -> BOOLEAN]
    /\ execs \in [ConnUsers -> 0..MaxExecs]
    /\ closeCalls \in [ConnUsers -> 0..MaxCloseCalls]
    /\ userDone \in [ConnUsers -> BOOLEAN]
    /\ sshFault \in [ConnUsers -> BOOLEAN]
    /\ text \in [Streams -> Seq(Chars)]
    /\ buffer \in [Streams -> Seq(Chars)]
    /\ delivered \in [Streams -> Seq(Seq(Chars))]
    /\ flushed \in BOOLEAN
    /\ chunks \in 0..MaxChunks

\* The controller after construction, for every respawn configuration.
Init ==
    /\ executed = FALSE
    /\ process_event_args = "None"
    /\ is_shutdown = FALSE
    /\ handlers = {}
    /\ completed_future = "None"
    /\ shutdown_future = "None"
    /\ sigterm_timer = "None"
    /\ sigkill_timer = "None"
    /\ transport = "None"
    /\ respawn \in BOOLEAN
    /\ respawn_max_retries \in -1..MaxRetriesBound
    /\ respawn_retries = 0
    /\ respawn_delay \in {0, 1}
    /\ pc = "none"
    /\ state = "Pending"
    /\ attemptNumber = 0
    /\ lastResult = "none"
    /\ executeCalls = 0
    /\ started = 0 /\ relaunches = 0 /\ exits = 0 /\ kills = 0
    /\ cleanups = 0 /\ resolves = 0
    /\ startFailed = FALSE /\ exitedInGrace = FALSE /\ fault = FALSE
    /\ delayInterrupted = FALSE
    /\ emitted = <<>>
    /\ connection = [u \in ConnUsers |-> "none"]
    /\ held = [u \in ConnUsers |-> FALSE]
    /\ execs = [u \in ConnUsers |-> 0]
    /\ closeCalls = [u \in ConnUsers |-> 0]
    /\ userDone = [u \in ConnUsers |-> FALSE]
    /\ sshFault = [u \in ConnUsers |-> FALSE]
    /\ text = [s \in Streams |-> <<>>]
    /\ buffer = [s \in Streams |-> <<>>]
    /\ delivered = [s \in Streams |-> <<>>]
    /\ flushed = FALSE
    /\ chunks = 0

(* ------------------------------------------------ execute(), lines 178-250 *)

\* Mutant: the double-execution guard is missing.
AlreadyExecuted_Unguarded == FALSE

\* Line 191: `if self.__executed`.
AlreadyExecuted == executed

\* Mutant: the pre-shutdown guard is missing.
PreShutdown_Ignored == FALSE

\* Line 197: `if context.is_shutdown`.
PreShutdown == is_shutdown

\* Mutant: the except clause re-raises without unregistering.
UnregisterAll_Skipped(h) == h

\* Lines 247-248: every handler registered by this call is unregistered.
UnregisterAll(h) == h \ EventHandlers

\* Lines 203-250: the handlers are registered, then the try block creates the
\* futures, the loggers and the monitoring task; when the statement failAt
\* raises, the except clause unregisters the handlers and re-raises.
SetUp(failAt) ==
    /\ completed_future' =
           IF failAt = "completed_future" THEN completed_future ELSE "pending"
    /\ shutdown_future' =
           IF failAt \in {"completed_future", "shutdown_future"}
           THEN shutdown_future ELSE "pending"
    /\ IF failAt = "none"
       THEN /\ handlers' = handlers \cup EventHandlers
            /\ pc' = "scheduled"
            /\ attemptNumber' = attemptNumber + 1
            /\ state' = "Pending"
            /\ lastResult' = "ok"
            /\ emitted' = <<>>
       ELSE /\ handlers' = UnregisterAll(handlers \cup EventHandlers)
            /\ lastResult' = "raised"
            /\ UNCHANGED <<pc, attemptNumber, state, emitted>>
    /\ UNCHANGED <<sigterm_timer, sigkill_timer, transport, respawn,
                   respawn_max_retries, respawn_retries, respawn_delay, started,
                   relaunches, exits, kills, cleanups, resolves, startFailed,
                   exitedInGrace, delayInterrupted, fault>>

\* execute(context): prepare, the double-execution guard, the pre-shutdown
\* guard, then the set-up.
Execute(failAt) ==
    /\ UNCHANGED nonLifecycleVars
    /\ executeCalls < MaxExecuteCalls
    /\ executeCalls' = executeCalls + 1
    /\ process_event_args' = "args"
    /\ UNCHANGED is_shutdown
    /\ IF AlreadyExecuted
       THEN /\ lastResult' = "RuntimeError"
            /\ UNCHANGED <<executed, controllerVars>>
       ELSE /\ executed' = TRUE
            /\ IF PreShutdown
               THEN /\ lastResult' = "noop"
                    /\ UNCHANGED controllerVars
               ELSE SetUp(failAt)

(* ------------------------------------------- shutdown requests (spec 4.4) *)

\* The launch context enters global shutdown.
ContextShutdown ==
    /\ UNCHANGED nonLifecycleVars
    /\ ~is_shutdown
    /\ is_shutdown' = TRUE
    /\ UNCHANGED <<executed, process_event_args, lastResult, executeCalls,
                   controllerVars>>

\* requestShutdown: the shutdown future is resolved; a running process gets the
\* graceful signal and the grace timer is armed.
RequestShutdown ==
    /\ shutdown_future = "pending"
    /\ shutdown_future' = "done"
    /\ delayInterrupted' = (delayInterrupted \/ pc = "delay")
    /\ IF state = "Running"
       THEN /\ state' = "ExitRequested"
            /\ sigterm_timer' = "armed"
       ELSE UNCHANGED <<state, sigterm_timer>>
    /\ UNCHANGED <<emitted, executed, process_event_args, is_shutdown,
                   handlers,
                   completed_future, sigkill_timer, transport, respawn,
                   respawn_max_retries, respawn_retries, respawn_delay, pc,
                   attemptNumber, lastResult, executeCalls, started, relaunches,
                   exits, kills, cleanups, resolves, startFailed,
                   exitedInGrace, fault>>

\* Handler of the targeted ShutdownProcess event (registered at lines 204-207).
OnShutdownProcessEvent ==
    /\ UNCHANGED nonLifecycleVars
    /\ "ShutdownProcess" \in handlers
    /\ RequestShutdown

\* Handler of the global Shutdown event (registered at lines 216-218).
OnShutdown ==
    /\ UNCHANGED nonLifecycleVars
    /\ "OnShutdown" \in handlers
    /\ is_shutdown
    /\ RequestShutdown

(* ------------------------------------------------ __cleanup, lines 256-266 *)

\* Mutant: the timer is left as it is.
CancelTimer_Skipped(t) == t

\* Lines 258-261: `if timer is not None: timer.cancel()`; cancelling a timer
\* whose callback already ran changes nothing.
CancelTimer(t) == IF t = "armed" THEN "cancelled" ELSE t

\* Lines 263-264: `if transport is not None: transport.close()`.
CloseTransport(t) == IF t = "None" THEN "None" ELSE "closed"

\* Mutant: the set_result call is missing.
Cleanup_NoResolve ==
    /\ sigterm_timer' = CancelTimer(sigterm_timer)
    /\ sigkill_timer' = CancelTimer(sigkill_timer)
    /\ transport' = CloseTransport(transport)
    /\ cleanups' = cleanups + 1
    /\ UNCHANGED <<completed_future, resolves, fault>>

\* __cleanup: cancel both timers, close the transport, resolve the completion
\* future; set_result on a future that is not pending raises.
Cleanup ==
    /\ sigterm_timer' = CancelTimer(sigterm_timer)
    /\ sigkill_timer' = CancelTimer(sigkill_timer)
    /\ transport' = CloseTransport(transport)
    /\ completed_future' = "done"
    /\ resolves' = resolves + 1
    /\ cleanups' = cleanups + 1
    /\ fault' = (fault \/ completed_future # "pending")

(* --------------------------------------- __execute_process, lines 268-313 *)

\* Lines 245 and 311: create_task(self.__execute_process(context)).
CreateTask ==
    /\ pc' = "scheduled"
    /\ attemptNumber' = attemptNumber + 1
    /\ state' = "Pending"
    /\ emitted' = <<>>

\* Mutant: the return after create_task is missing, so the task that hands
\* over to the relaunch also runs __cleanup.
RelaunchStep_NoReturn ==
    /\ CreateTask
    /\ relaunches' = relaunches + 1
    /\ Cleanup

\* Lines 311-312: the relaunch is scheduled and the task returns.
RelaunchStep ==
    /\ CreateTask
    /\ relaunches' = relaunches + 1
    /\ UNCHANGED <<sigterm_timer, sigkill_timer, transport, completed_future,
                   resolves, cleanups, fault>>

\* Line 313 (and 289-290): the task ends with __cleanup.
FinishStep ==
    /\ pc' = "done"
    /\ Cleanup
    /\ UNCHANGED <<attemptNumber, state, relaunches, emitted>>

\* Mutant: the retry budget is compared with <=.
ShouldRespawn_OffByOne ==
    /\ ~is_shutdown
    /\ shutdown_future # "None"
    /\ shutdown_future # "done"
    /\ respawn
    /\ (respawn_max_retries < 0 \/ respawn_retries <= respawn_max_retries)

\* Mutant: the shutdown tests are missing.
ShouldRespawn_IgnoresShutdown ==
    /\ respawn
    /\ (respawn_max_retries < 0 \/ respawn_retries < respawn_max_retries)

\* Mutant: the test of self.__respawn is missing.
ShouldRespawn_IgnoresDisabled ==
    /\ ~is_shutdown
    /\ shutdown_future # "None"
    /\ shutdown_future # "done"
    /\ (respawn_max_retries < 0 \/ respawn_retries < respawn_max_retries)

\* Mutant: a negative budget counts as used up.
ShouldRespawn_NegativeIsExhausted ==
    /\ ~is_shutdown
    /\ shutdown_future # "None"
    /\ shutdown_future # "done"
    /\ respawn
    /\ respawn_retries < respawn_max_retries

\* Lines 294-299: the respawn condition.
ShouldRespawn ==
    /\ ~is_shutdown
    /\ shutdown_future # "None"
    /\ shutdown_future # "done"
    /\ respawn
    /\ (respawn_max_retries < 0 \/ respawn_retries < respawn_max_retries)

\* Mutant: the relaunch does not look at the shutdown future.
RelaunchAfterWait_Unchecked == TRUE

\* Line 310: `if not self.__shutdown_future.done()`.
RelaunchAfterWait == shutdown_future # "done"

\* Lines 268-283: the scheduled task starts running and enters the try block.
TaskBegin ==
    /\ UNCHANGED nonLifecycleVars
    /\ pc = "scheduled"
    /\ IF process_event_args = "None"
       THEN /\ fault' = TRUE
            /\ pc' = "done"
            /\ UNCHANGED state
       ELSE /\ pc' = "starting"
            /\ state' = "Starting"
            /\ UNCHANGED fault
    /\ UNCHANGED <<emitted, executed, process_event_args, is_shutdown,
                   handlers,
                   completed_future, shutdown_future, sigterm_timer,
                   sigkill_timer, transport, respawn, respawn_max_retries,
                   respawn_retries, respawn_delay, attemptNumber, lastResult,
                   executeCalls, started, relaunches, exits, kills, cleanups,
                   resolves, startFailed, exitedInGrace, delayInterrupted>>

\* Mutant: the start is not announced.
StartedNotification_Missing(e) == e

\* The "started" notification goes out when the process is confirmed alive.
StartedNotification(e) == Append(e, "started")

\* Starting -> Running: the transport confirms the process is alive and the
\* "started" notification is emitted; a start is not completed once a shutdown
\* was requested.
StartOk ==
    /\ UNCHANGED nonLifecycleVars
    /\ pc = "starting"
    /\ shutdown_future # "done"
    /\ pc' = "running"
    /\ state' = "Running"
    /\ transport' = "open"
    /\ started' = started + 1
    /\ emitted' = StartedNotification(emitted)
    /\ UNCHANGED <<executed, process_event_args, is_shutdown,
                   handlers,
                   completed_future, shutdown_future, sigterm_timer,
                   sigkill_timer, respawn, respawn_max_retries, respawn_retries,
                   respawn_delay, attemptNumber, lastResult, executeCalls,
                   relaunches, exits, kills, cleanups, resolves, startFailed,
                   exitedInGrace, delayInterrupted, fault>>

\* Mutant: a failure to start goes on to the respawn decision.
StartFail_Respawns ==
    /\ UNCHANGED nonLifecycleVars
    /\ pc = "starting"
    /\ state' = "Failed"
    /\ startFailed' = TRUE
    /\ pc' = "exited"
    /\ UNCHANGED <<emitted, executed, process_event_args, is_shutdown,
                   handlers,
                   completed_future, shutdown_future, sigterm_timer,
                   sigkill_timer, transport, respawn, respawn_max_retries,
                   respawn_retries, respawn_delay, attemptNumber, lastResult,
                   executeCalls, started, relaunches, exits, kills, cleanups,
                   resolves, exitedInGrace, delayInterrupted, fault>>

\* Lines 285-290: the open or the spawn raised; the error is logged, __cleanup
\* runs and the task returns.
StartFail ==
    /\ UNCHANGED nonLifecycleVars
    /\ pc = "starting"
    /\ state' = "Failed"
    /\ startFailed' = TRUE
    /\ pc' = "done"
    /\ Cleanup
    /\ UNCHANGED <<emitted, executed, process_event_args, is_shutdown,
                   handlers,
                   shutdown_future, respawn, respawn_max_retries,
                   respawn_retries, respawn_delay, attemptNumber, lastResult,
                   executeCalls, started, relaunches, exits, kills,
                   exitedInGrace, delayInterrupted>>

\* The process writes a chunk on stdout or stderr and the output notification
\* is emitted; only a process that was started and is not yet confirmed
\* terminated writes.
ProcessOutput ==
    /\ UNCHANGED nonLifecycleVars
    /\ state \in {"Running", "ExitRequested", "Exiting"}
    /\ Cardinality({i \in DOMAIN emitted : emitted[i] = "output"}) < MaxOutputs
    /\ emitted' = Append(emitted, "output")
    /\ UNCHANGED <<executed, process_event_args, is_shutdown, handlers,
                   completed_future, shutdown_future, sigterm_timer,
                   sigkill_timer, transport, respawn, respawn_max_retries,
                   respawn_retries, respawn_delay, pc, state, attemptNumber,
                   lastResult, executeCalls, started, relaunches, exits, kills,
                   cleanups, resolves, startFailed, exitedInGrace, delayInterrupted, fault>>

\* Running -> Exiting: the process terminates on its own.
ProcessTerminates ==
    /\ UNCHANGED nonLifecycleVars
    /\ state = "Running"
    /\ exits < MaxExits
    /\ state' = "Exiting"
    /\ exits' = exits + 1
    /\ UNCHANGED <<emitted, executed, process_event_args, is_shutdown,
                   handlers,
                   completed_future, shutdown_future, sigterm_timer,
                   sigkill_timer, transport, respawn, respawn_max_retries,
                   respawn_retries, respawn_delay, pc, attemptNumber,
                   lastResult, executeCalls, started, relaunches, kills,
                   cleanups, resolves, startFailed, exitedInGrace, delayInterrupted, fault>>

\* ExitRequested -> Exiting: the escalation signal is delivered.
EscalationDelivered ==
    /\ UNCHANGED nonLifecycleVars
    /\ state = "ExitRequested"
    /\ state' = "Exiting"
    /\ UNCHANGED <<emitted, executed, process_event_args, is_shutdown,
                   handlers,
                   completed_future, shutdown_future, sigterm_timer,
                   sigkill_timer, transport, respawn, respawn_max_retries,
                   respawn_retries, respawn_delay, pc, attemptNumber,
                   lastResult, executeCalls, started, relaunches, exits, kills,
                   cleanups, resolves, startFailed, exitedInGrace, delayInterrupted, fault>>

\* Exiting -> Exited: the process is confirmed terminated; the task waiting
\* for the exit is resumed at line 294.
ExitConfirmed ==
    /\ UNCHANGED nonLifecycleVars
    /\ state = "Exiting"
    /\ state' = "Exited"
    /\ pc' = "exited"
    /\ emitted' = Append(emitted, "exited")
    /\ exitedInGrace' = (exitedInGrace \/ sigterm_timer = "armed")
    /\ UNCHANGED delayInterrupted
    /\ UNCHANGED <<executed, process_event_args, is_shutdown,
                   handlers,
                   completed_future, shutdown_future, sigterm_timer,
                   sigkill_timer, transport, respawn, respawn_max_retries,
                   respawn_retries, respawn_delay, attemptNumber, lastResult,
                   executeCalls, started, relaunches, exits, kills, cleanups,
                   resolves, startFailed, fault>>

(* ------------------------------------------- escalation timers (spec 4.4) *)

\* Mutant: the grace timer kills without looking at the process.
SigtermTimerFires_KillsAnyway ==
    /\ UNCHANGED nonLifecycleVars
    /\ sigterm_timer = "armed"
    /\ state # "ExitRequested"
    /\ sigterm_timer' = "fired"
    /\ kills' = kills + 1
    /\ sigkill_timer' = "armed"
    /\ UNCHANGED <<emitted, executed, process_event_args, is_shutdown,
                   handlers,
                   completed_future, shutdown_future, transport, respawn,
                   respawn_max_retries, respawn_retries, respawn_delay, pc,
                   state, attemptNumber, lastResult, executeCalls, started,
                   relaunches, exits, cleanups, resolves, startFailed,
                   exitedInGrace, delayInterrupted, fault>>

\* The grace timer fires: a process that is not terminal is killed forcefully
\* and the second timer is armed; for a process that already exited the
\* callback does nothing.
SigtermTimerFires ==
    /\ UNCHANGED nonLifecycleVars
    /\ sigterm_timer = "armed"
    /\ state # "ExitRequested"
    /\ sigterm_timer' = "fired"
    /\ IF state \notin TerminalStates
       THEN /\ kills' = kills + 1
            /\ sigkill_timer' = "armed"
       ELSE UNCHANGED <<kills, sigkill_timer>>
    /\ UNCHANGED <<emitted, executed, process_event_args, is_shutdown,
                   handlers,
                   completed_future, shutdown_future, transport, respawn,
                   respawn_max_retries, respawn_retries, respawn_delay, pc,
                   state, attemptNumber, lastResult, executeCalls, started,
                   relaunches, exits, cleanups, resolves, startFailed,
                   exitedInGrace, delayInterrupted, fault>>

\* The second timer fires: a process that is still not terminal is reported
\* as a TerminationFailure (Exiting -> Failed) and the task goes on at line
\* 294; for a process that already exited the callback does nothing.
SigkillTimerFires ==
    /\ UNCHANGED nonLifecycleVars
    /\ sigkill_timer = "armed"
    /\ sigkill_timer' = "fired"
    /\ IF state \notin TerminalStates
       THEN /\ state' = "Failed"
            /\ pc' = "exited"
       ELSE UNCHANGED <<state, pc>>
    /\ UNCHANGED <<emitted, executed, process_event_args, is_shutdown,
                   handlers,
                   completed_future, shutdown_future, sigterm_timer, transport,
                   respawn, respawn_max_retries, respawn_retries, respawn_delay,
                   attemptNumber, lastResult, executeCalls, started, relaunches,
                   exits, kills, cleanups, resolves, startFailed,
                   exitedInGrace, delayInterrupted, fault>>

(* ------------------------------------------ respawn decision, lines 294-313 *)

\* Lines 294-313 up to the wait: the respawn condition is evaluated; when it
\* holds the retry counter is incremented and, with a positive delay, the task
\* waits on the shutdown future; otherwise the task goes on to line 310.
RespawnDecision ==
    /\ UNCHANGED nonLifecycleVars
    /\ pc = "exited"
    /\ IF ShouldRespawn
       THEN /\ respawn_retries' = respawn_retries + 1
            /\ IF respawn_delay > 0
               THEN /\ pc' = "delay"
                    /\ UNCHANGED <<attemptNumber, state, relaunches, emitted,
                                   sigterm_timer, sigkill_timer, transport,
                                   completed_future, resolves, cleanups, fault>>
               ELSE IF RelaunchAfterWait THEN RelaunchStep ELSE FinishStep
       ELSE /\ FinishStep
            /\ UNCHANGED respawn_retries
    /\ UNCHANGED <<executed, process_event_args, is_shutdown,
                   handlers,
                   shutdown_future, respawn, respawn_max_retries, respawn_delay,
                   lastResult, executeCalls, started, exits, kills, startFailed,
                   exitedInGrace, delayInterrupted>>

\* Lines 306-313: asyncio.wait returns (the delay elapsed or the shutdown
\* future was resolved); the task relaunches unless the shutdown future is
\* done, in which case it runs __cleanup.
DelayReturns ==
    /\ UNCHANGED nonLifecycleVars
    /\ pc = "delay"
    /\ IF RelaunchAfterWait THEN RelaunchStep ELSE FinishStep
    /\ UNCHANGED <<executed, process_event_args, is_shutdown,
                   handlers,
                   shutdown_future, respawn, respawn_max_retries,
                   respawn_retries, respawn_delay, lastResult, executeCalls,
                   started, exits, kills, startFailed, exitedInGrace, delayInterrupted>>

(* ------------------------------ SSHConnection, utilities/ssh_connection.py *)

\* Lines 43-52: open_connection; SSHClient.connect either connects or raises.
OpenConnection(ok) == IF ok THEN "open" ELSE "failed"

\* Mutant: the constructor swallows the error of connect and returns.
Returned_Always(ok) == TRUE

\* Lines 27-41: __init__ calls open_connection last and does not catch its
\* error, so the caller gets an object only when the connection is open.
Returned(ok) == ok

\* Lines 54-56: exec_on_connection; SSHClient.exec_command runs the command on
\* an open connection and raises on one that is not open.
ExecOnConnection(u) ==
    IF connection[u] = "open"
    THEN /\ execs' = [execs EXCEPT ![u] = @ + 1]
         /\ UNCHANGED sshFault
    ELSE /\ sshFault' = [sshFault EXCEPT ![u] = TRUE]
         /\ UNCHANGED execs

\* Lines 58-60: close_connection; SSHClient.close closes the transport when
\* there is one and does nothing otherwise.
CloseConnection(c) == IF c = "open" THEN "closed" ELSE c

\* A direct client constructs an SSHConnection.
ClientConstruct(ok) ==
    /\ UNCHANGED nonSshVars
    /\ connection["client"] = "none"
    /\ connection' = [connection EXCEPT !["client"] = OpenConnection(ok)]
    /\ held' = [held EXCEPT !["client"] = Returned(ok)]
    /\ userDone' = [userDone EXCEPT !["client"] = ~Returned(ok)]
    /\ UNCHANGED <<execs, closeCalls, sshFault>>

\* The client runs a command on the object it holds.
ClientExec ==
    /\ UNCHANGED nonSshVars
    /\ held["client"]
    /\ execs["client"] < MaxExecs
    /\ ~sshFault["client"]
    /\ ExecOnConnection("client")
    /\ UNCHANGED <<connection, held, closeCalls, userDone>>

\* The client closes the object it holds, possibly once more.
ClientClose ==
    /\ UNCHANGED nonSshVars
    /\ held["client"]
    /\ closeCalls["client"] < MaxCloseCalls
    /\ connection' = [connection EXCEPT !["client"] = CloseConnection(@)]
    /\ closeCalls' = [closeCalls EXCEPT !["client"] = @ + 1]
    /\ UNCHANGED <<held, execs, userDone, sshFault>>

\* substitutions/remote_substitution.py lines 46-52: perform constructs a
\* connection, runs the command on it, builds the result and returns; the
\* error of a failed connect propagates out of line 49.
Perform(ok) ==
    /\ UNCHANGED nonSshVars
    /\ connection["perform"] = "none"
    /\ connection' = [connection EXCEPT !["perform"] = OpenConnection(ok)]
    /\ held' = [held EXCEPT !["perform"] = Returned(ok)]
    /\ IF Returned(ok)
       THEN IF ok
            THEN /\ execs' = [execs EXCEPT !["perform"] = @ + 1]
                 /\ UNCHANGED sshFault
            ELSE /\ sshFault' = [sshFault EXCEPT !["perform"] = TRUE]
                 /\ UNCHANGED execs
       ELSE UNCHANGED <<execs, sshFault>>
    /\ userDone' = [userDone EXCEPT !["perform"] = TRUE]
    /\ UNCHANGED closeCalls

\* actions/execute_ssh_process.py lines 66-75: exec_remote_command opens a
\* connection through open_ssh_connection and returns.
ExecRemoteCommand(ok) ==
    /\ UNCHANGED nonSshVars
    /\ connection["ssh_process"] = "none"
    /\ connection' = [connection EXCEPT !["ssh_process"] = OpenConnection(ok)]
    /\ held' = [held EXCEPT !["ssh_process"] = Returned(ok)]
    /\ userDone' = [userDone EXCEPT !["ssh_process"] = TRUE]
    /\ UNCHANGED <<execs, closeCalls, sshFault>>

(* ------------------------------------------- output routing (spec 4.2) *)

\* The data is cut at the line terminators: the complete lines, without
\* their terminator, and the unterminated rest.
RECURSIVE SplitFrom(_, _, _)
SplitFrom(data, lines, line) ==
    IF data = <<>>
    THEN [lines |-> lines, rest |-> line]
    ELSE IF Head(data) = "nl"
         THEN SplitFrom(Tail(data), Append(lines, line), <<>>)
         ELSE SplitFrom(Tail(data), lines, Append(line, Head(data)))

SplitLines(data) == SplitFrom(data, <<>>, <<>>)

\* Mutant: the buffered partial line is dropped at stream close.
FlushRecords_Dropped(buf) == <<>>

\* What the flush delivers: the buffered partial line, if there is one.
FlushRecords(buf) == IF buf = <<>> THEN <<>> ELSE <<buf>>

\* The handler of an output event of stream s (registered at lines 208-215
\* with the stream's buffer and logger): the chunk is appended to the
\* stream's buffer, every complete line goes to the stream's logger and the
\* unterminated rest stays in the buffer.
OnProcessOutput(s, chunk) ==
    /\ UNCHANGED nonRouterVars
    /\ ~flushed
    /\ chunks < MaxChunks
    /\ chunks' = chunks + 1
    /\ text' = [text EXCEPT ![s] = @ \o chunk]
    /\ LET split == SplitLines(buffer[s] \o chunk)
       IN /\ delivered' = [delivered EXCEPT ![s] = @ \o split.lines]
          /\ buffer' = [buffer EXCEPT ![s] = split.rest]
    /\ UNCHANGED flushed

\* The exit handler registered at lines 224-227: at process exit the streams
\* are closed and what is left in each buffer is delivered as a last line.
FlushBuffers ==
    /\ UNCHANGED nonRouterVars
    /\ ~flushed
    /\ flushed' = TRUE
    /\ delivered' = [s \in Streams |-> delivered[s] \o FlushRecords(buffer[s])]
    /\ buffer' = [s \in Streams |-> <<>>]
    /\ UNCHANGED <<text, chunks>>

\* The steps of the output routing of one attempt.
OutputNext ==
    \/ \E s \in Streams : \E chunk \in Chunks : OnProcessOutput(s, chunk)
    \/ FlushBuffers

\* The output routing alone.
SpecOutput == Init /\ [][OutputNext]_vars

(* --------------------------------------------------------- specification *)

\* The steps of the SSH connections.
SshNext ==
    \/ \E ok \in BOOLEAN : ClientConstruct(ok)
    \/ ClientExec
    \/ ClientClose
    \/ \E ok \in BOOLEAN : Perform(ok)
    \/ \E ok \in BOOLEAN : ExecRemoteCommand(ok)

\* The SSH connections alone.
SpecSsh == Init /\ [][SshNext]_vars

\* The steps of the controller, its context and its process.
Next ==
    \/ \E failAt \in SetupFailPoints : Execute(failAt)
    \/ ContextShutdown
    \/ OnShutdownProcessEvent
    \/ OnShutdown
    \/ TaskBegin
    \/ StartOk
    \/ StartFail
    \/ ProcessOutput
    \/ ProcessTerminates
    \/ EscalationDelivered
    \/ ExitConfirmed
    \/ SigtermTimerFires
    \/ SigkillTimerFires
    \/ RespawnDecision
    \/ DelayReturns

Spec == Init /\ [][Next]_vars

\* A process that terminated on its own, with no escalation under way, is
\* confirmed terminated.
NaturalExitConfirmed == ExitConfirmed /\ sigterm_timer = "None"

\* What the event loop guarantees: a ready task is run, a delay elapses, an
\* armed timer fires unless cancelled, a queued Shutdown event reaches its
\* handler, an open attempt succeeds or fails, a delivered signal arrives and
\* a process that terminated is reaped. Nothing makes a process exit.
Fairness ==
    /\ WF_vars(TaskBegin)
    /\ WF_vars(StartOk \/ StartFail)
    /\ WF_vars(RespawnDecision)
    /\ WF_vars(DelayReturns)
    /\ WF_vars(OnShutdown)
    /\ WF_vars(EscalationDelivered)
    /\ WF_vars(SigtermTimerFires)
    /\ WF_vars(SigkillTimerFires)
    /\ WF_vars(NaturalExitConfirmed)

\* The controller under the event loop's scheduling.
FairSpec == Init /\ [][Next]_vars /\ Fairness

\* __cleanup (lines 256-266) applied once more to a controller that has
\* already run it.
CleanupAgain ==
    /\ UNCHANGED nonLifecycleVars
    /\ cleanups >= 1
    /\ cleanups < MaxCleanupRuns
    /\ Cleanup
    /\ UNCHANGED <<emitted, executed, process_event_args, is_shutdown,
                   handlers,
                   shutdown_future, respawn, respawn_max_retries,
                   respawn_retries, respawn_delay, pc, state, attemptNumber,
                   lastResult, executeCalls, started, relaunches, exits, kills,
                   startFailed, exitedInGrace, delayInterrupted>>

\* The controller with __cleanup applicable a second time.
SpecOps == Init /\ [][Next \/ CleanupAgain]_vars

(* ================================================================ claims *)

\* No shutdown was requested so far, neither targeted nor global.
NoShutdownRequested == ~is_shutdown /\ shutdown_future # "done"

\* C1: with respawn enabled and maxRetries = N >= 0, no shutdown requested and
\* no attempt failing to start, at most N relaunches happen (attempt numbers
\* stay within 1..N+1), and when the controller has finished it has relaunched
\* exactly N times: N+1 launches, the last attempt numbered N+1.
C1_RelaunchedExactlyN ==
    (respawn /\ respawn_max_retries >= 0 /\ NoShutdownRequested /\ ~startFailed)
        => /\ relaunches <= respawn_max_retries
           /\ attemptNumber <= respawn_max_retries + 1
           /\ started <= respawn_max_retries + 1
           /\ pc = "done" => /\ relaunches = respawn_max_retries
                             /\ started = respawn_max_retries + 1
                             /\ attemptNumber = respawn_max_retries + 1

\* A controller with a budget of two retries finished after three launches.
C1_Witness ==
    /\ pc = "done" /\ respawn /\ respawn_max_retries = 2
    /\ NoShutdownRequested /\ ~startFailed
    /\ relaunches = 2 /\ started = 3 /\ attemptNumber = 3

\* C2: once the shutdown future is resolved no step creates a new attempt,
\* whatever retry budget remains; in particular the task waiting out the
\* respawn delay, when it goes on after a shutdown, ends with __cleanup.
C2_NoRelaunchAfterShutdown ==
    [][shutdown_future = "done"
         => /\ relaunches' = relaunches
            /\ attemptNumber' = attemptNumber
            /\ (pc = "delay" /\ pc' # "delay" => pc' = "done")]_vars

\* A shutdown arrived during the respawn delay with budget left: the counter
\* was incremented, the relaunch was abandoned and the controller finished.
C2_Witness ==
    /\ pc = "done" /\ shutdown_future = "done" /\ respawn_delay > 0
    /\ respawn_retries = relaunches + 1
    /\ (respawn_max_retries < 0 \/ respawn_retries < respawn_max_retries)

\* C3: when the task takes the respawn decision after an exit and a shutdown
\* was requested (shutdown future resolved, or the context in global
\* shutdown), the decision is Stop: the retry counter is not incremented, no
\* new attempt is created and the task ends with __cleanup.
C3_ShutdownNeverRetried ==
    [][(pc = "exited" /\ pc' # "exited" /\ ~NoShutdownRequested)
         => /\ respawn_retries' = respawn_retries
            /\ attemptNumber' = attemptNumber
            /\ relaunches' = relaunches
            /\ pc' = "done"]_vars

\* The process exited under a shutdown request with respawn enabled and an
\* unlimited budget, and the controller stopped at the respawn decision.
C3_Witness ==
    /\ pc = "done" /\ state = "Exited" /\ ~NoShutdownRequested
    /\ respawn /\ respawn_max_retries < 0
    /\ respawn_retries = relaunches

\* C4: the completion future is resolved at most once, exactly once when the
\* task chain has ended, and only when the last attempt is terminal, no timer
\* is armed, the transport is closed and no task is scheduled, waiting or
\* running: an attempt that hands over to a relaunch leaves it pending.
C4_CompletionResolvedOnceAtEnd ==
    /\ resolves <= 1
    /\ pc = "done" => resolves = 1
    /\ completed_future = "done"
         => /\ pc = "done"
            /\ state \in TerminalStates
            /\ sigterm_timer # "armed"
            /\ sigkill_timer # "armed"
            /\ transport # "open"
            /\ resolves = 1
    /\ resolves = 1 => completed_future = "done"

\* The completion future was resolved after a respawned attempt that was shut
\* down: the grace timer was cancelled and the transport closed.
C4_Witness ==
    /\ completed_future = "done" /\ relaunches >= 1 /\ resolves = 1
    /\ sigterm_timer = "cancelled" /\ transport = "closed"

\* A managed task exists that has not ended: it is scheduled, starting,
\* waiting for the exit, at the respawn decision or waiting out the delay.
TaskAlive == pc \in {"scheduled", "starting", "running", "exited", "delay"}

\* C5: on every failure path the completion future the controller hands out
\* gets resolved, so a caller waiting on it is never blocked forever, and no
\* error escapes the managed task: whenever the future exists and is still
\* pending, a managed task that will resolve it is alive.
C5_EveryFailurePathResolves ==
    /\ completed_future = "pending" => TaskAlive
    /\ ~fault

\* C6: a failure to start is never respawned, whatever the respawn
\* configuration: the step that fails the start leaves the retry counter and
\* the attempt number unchanged, runs __cleanup and resolves the completion
\* future, and the controller stays finished afterwards.
C6_StartFailureNotRespawned ==
    /\ [](startFailed => /\ pc = "done"
                         /\ state = "Failed"
                         /\ completed_future = "done"
                         /\ cleanups = 1)
    /\ [][(pc = "starting" /\ state' = "Failed")
            => /\ respawn_retries' = respawn_retries
               /\ attemptNumber' = attemptNumber
               /\ relaunches' = relaunches
               /\ cleanups' = cleanups + 1
               /\ completed_future' = "done"]_vars

\* A start failed with respawn enabled and an unlimited budget, and the
\* controller finished without a relaunch.
C6_Witness ==
    /\ startFailed /\ respawn /\ respawn_max_retries < 0
    /\ NoShutdownRequested
    /\ pc = "done" /\ completed_future = "done" /\ relaunches = 0

\* C7: execute on a controller that was already executed raises and starts
\* nothing: handlers, futures, task, attempt and every other field of the
\* controller are left as they were.
C7_DoubleExecuteRaises ==
    [][(executeCalls' = executeCalls + 1 /\ executed)
         => /\ lastResult' = "RuntimeError"
            /\ UNCHANGED <<executed, is_shutdown, controllerVars>>]_vars

\* The second execute raised while the process of the first is running.
C7_Witness ==
    /\ lastResult = "RuntimeError" /\ executeCalls = 2
    /\ pc = "running" /\ state = "Running" /\ attemptNumber = 1

\* C8: execute in a context that is already in global shutdown is a no-op:
\* no handler is registered, no future and no task is created, no attempt is
\* launched and no "started" notification is emitted, then or later.
C8_PreShutdownNoOp ==
    /\ [](lastResult = "noop" => /\ handlers = {}
                                 /\ completed_future = "None"
                                 /\ shutdown_future = "None"
                                 /\ pc = "none"
                                 /\ attemptNumber = 0
                                 /\ started = 0)
    /\ [][(executeCalls' = executeCalls + 1 /\ ~executed /\ is_shutdown)
            => /\ lastResult' = "noop"
               /\ executed'
               /\ UNCHANGED controllerVars]_vars

\* The controller was executed during a global shutdown.
C8_Witness ==
    /\ lastResult = "noop" /\ executed /\ is_shutdown
    /\ completed_future = "None" /\ pc = "none"

\* C9: a process that exits while the grace timer is armed is never killed
\* forcefully; when the grace timer fires and the process has not exited
\* before, exactly one forceful kill is issued; no second kill is ever issued.
C9_EscalationKillsAtMostOnce ==
    /\ kills <= 1
    /\ exitedInGrace => kills = 0
    /\ sigterm_timer # "fired" => kills = 0
    /\ (sigterm_timer = "fired" /\ ~exitedInGrace) => kills = 1

\* A process ignored the graceful signal past the grace period, was killed
\* once and then exited.
C9_Witness ==
    /\ kills = 1 /\ sigterm_timer = "fired" /\ state = "Exited"
    /\ shutdown_future = "done" /\ completed_future = "done"

\* C10: __cleanup runs at most once, only when the attempt is terminal, and
\* leaves no timer armed, the transport closed and the completion future
\* resolved; a finished task chain has run it exactly once; no error is raised
\* when an exit races with a timer.
C10_CleanupOnceAfterTerminal ==
    /\ cleanups <= 1
    /\ pc = "done" => cleanups = 1
    /\ cleanups = 1 => /\ state \in TerminalStates
                       /\ sigterm_timer # "armed"
                       /\ sigkill_timer # "armed"
                       /\ transport # "open"
                       /\ completed_future = "done"
    /\ ~fault

\* The grace timer fired after the process had exited and before __cleanup
\* ran: nothing was killed and cleanup ran once.
C10_Witness ==
    /\ exitedInGrace /\ sigterm_timer = "fired" /\ kills = 0
    /\ cleanups = 1 /\ completed_future = "done" /\ ~fault

\* C11: closing a connection that is already closed, and running the step
\* that resolves the completion future on a future that is already resolved,
\* both leave the state as it is and raise no error.
C11_SecondCloseAndResolveAreNoOps ==
    [][/\ (cleanups >= 1 /\ cleanups' = cleanups + 1)
            => /\ UNCHANGED <<completed_future, sigterm_timer, sigkill_timer,
                              transport>>
               /\ fault' = fault
       /\ \A u \in ConnUsers :
            (connection[u] = "closed" /\ closeCalls'[u] = closeCalls[u] + 1)
                => /\ connection'[u] = "closed"
                   /\ UNCHANGED <<held, execs, sshFault>>]_vars

\* The controller has received a shutdown request: its shutdown future is
\* resolved, or the context is in global shutdown with the controller's
\* handler registered and its completion future pending.
ShutdownReceived ==
    \/ shutdown_future = "done"
    \/ is_shutdown /\ "OnShutdown" \in handlers /\ completed_future = "pending"

\* C12: under the event loop's fairness, once a shutdown request is received
\* the controller eventually finishes: the attempt is terminal, the task chain
\* has ended and the completion future is resolved, whichever suspension the
\* task was in and also when the process ignores both signals.
C12_ShutdownLeadsToCompletion ==
    ShutdownReceived
        ~> (completed_future = "done" /\ pc = "done" /\ state \in TerminalStates)

\* The process ignored the graceful signal and the forceful kill; the second
\* timer reported the termination failure and the controller finished.
C12_Witness ==
    /\ shutdown_future = "done" /\ kills = 1 /\ sigkill_timer = "fired"
    /\ state = "Failed" /\ ~startFailed
    /\ pc = "done" /\ completed_future = "done"

\* The order of the states of one attempt.
StateRank(s) ==
    CASE s = "Pending" -> 0
      [] s = "Starting" -> 1
      [] s = "Running" -> 2
      [] s = "ExitRequested" -> 3
      [] s = "Exiting" -> 4
      [] s \in TerminalStates -> 5

\* The Respawn Policy's RetryAfter (spec 4.3, rules 1-4) as the step that
\* creates a new attempt shows it: either the decision is taken in this step
\* (no shutdown requested, respawn enabled, budget left, counter incremented)
\* or it was taken before the delay the task is returning from.
RetryAfterDecided ==
    \/ /\ pc = "exited"
       /\ ~is_shutdown /\ shutdown_future = "pending"
       /\ respawn
       /\ (respawn_max_retries < 0 \/ respawn_retries < respawn_max_retries)
       /\ respawn_retries' = respawn_retries + 1
    \/ /\ pc = "delay"
       /\ shutdown_future = "pending"
       /\ respawn
       /\ respawn_retries >= 1
       /\ (respawn_max_retries < 0 \/ respawn_retries <= respawn_max_retries)
       /\ respawn_retries' = respawn_retries

\* C13: within one attempt the state only moves forward in the order Pending,
\* Starting, Running, ExitRequested, Exiting, Exited or Failed, and Exited and
\* Failed are never left; a new attempt, numbered one more and Pending, is
\* constructed only from a terminal attempt under a RetryAfter decision.
C13_AttemptStatesMonotonic ==
    [][/\ attemptNumber' = attemptNumber
            => /\ StateRank(state') >= StateRank(state)
               /\ state \in TerminalStates => state' = state
       /\ attemptNumber' # attemptNumber
            => /\ attemptNumber' = attemptNumber + 1
               /\ state' = "Pending"
               /\ attemptNumber >= 1
                    => (state \in TerminalStates /\ RetryAfterDecided)]_vars

\* A second attempt was constructed after the first exited and is running.
C13_Witness ==
    /\ attemptNumber = 2 /\ relaunches = 1 /\ state = "Running"
    /\ respawn_retries = 1

\* The users of SSHConnection in the repository, which keep the connection in
\* a local variable.
RepositoryUsers == {"perform", "ssh_process"}

\* C14: every connection a user opened is closed exactly once by the time
\* the user is done with it, and no user runs a command on a connection that
\* is not open.
C14_ConnectionsClosedExactlyOnce ==
    \A u \in RepositoryUsers :
        /\ (userDone[u] /\ held[u])
              => (connection[u] = "closed" /\ closeCalls[u] = 1)
        /\ closeCalls[u] <= 1
        /\ ~sshFault[u]

\* C18: a connection whose open failed is never returned to its caller, no
\* command is run on it and no use of it is attempted.
C18_FailedOpenNeverUsable ==
    \A u \in ConnUsers :
        connection[u] = "failed"
            => (~held[u] /\ execs[u] = 0 /\ ~sshFault[u])

\* perform was called for a machine whose connect raised, and it is over.
C18_Witness ==
    /\ connection["perform"] = "failed"
    /\ userDone["perform"]
    /\ ~held["perform"]

\* A negative respawn_max_retries: the retry budget is unlimited.
UnlimitedBudget == respawn /\ respawn_max_retries < 0

\* C19: with respawn enabled and a negative maxRetries, the step taken after
\* a post-start exit with no shutdown requested counts one more retry and
\* goes on to a relaunch (directly or through the respawn delay), whatever
\* the number of previous retries; a started task ends only when a shutdown
\* was requested or the attempt failed to start.
C19_NegativeMaxRetriesIsUnlimited ==
    [][UnlimitedBudget =>
          /\ (pc = "exited" /\ NoShutdownRequested /\ pc' # pc)
                => /\ respawn_retries' = respawn_retries + 1
                   /\ pc' \in {"delay", "scheduled"}
          /\ (pc \in {"starting", "exited", "delay"} /\ pc' = "done")
                => (is_shutdown' \/ shutdown_future' = "done" \/ startFailed')
      ]_vars

\* With an unlimited budget the process exited MaxExits times, no shutdown
\* was requested, and it was relaunched every time.
C19_Witness ==
    /\ UnlimitedBudget /\ NoShutdownRequested /\ ~startFailed
    /\ exits = MaxExits
    /\ relaunches = MaxExits
    /\ respawn_retries = MaxExits

\* C20: at most one attempt is active: a task for a new attempt is created
\* only by the first execute or by the task of the previous attempt after
\* that attempt's process reached a terminal state and the respawn decision
\* was being taken; the step that creates it runs no cleanup; and cleanup
\* runs only in the step that ends the last task, never while an attempt is
\* scheduled or running.
C20_AtMostOneActiveAttempt ==
    [][/\ attemptNumber' # attemptNumber
            => /\ attemptNumber' = attemptNumber + 1
               /\ \/ (attemptNumber = 0 /\ pc = "none")
                  \/ (state \in TerminalStates /\ pc \in {"exited", "delay"})
               /\ pc' = "scheduled"
               /\ cleanups' = cleanups
       /\ cleanups' # cleanups
            => (pc' = "done" /\ attemptNumber' = attemptNumber)
       /\ cleanups >= 1 => pc' = "done"
      ]_vars

\* The second attempt is running after a relaunch and no cleanup has run.
C20_Witness ==
    /\ attemptNumber = 2 /\ relaunches = 1
    /\ pc = "running" /\ state = "Running"
    /\ cleanups = 0

\* C15: in every attempt the "started" notification comes before any output
\* notification and before the "exited" notification: each output or
\* "exited" notification of the attempt has a "started" one earlier in the
\* attempt's sequence.
C15_StartedPrecedesOutputAndExited ==
    \A i \in DOMAIN emitted :
        emitted[i] \in {"output", "exited"}
            => \E j \in 1..(i - 1) : emitted[j] = "started"

\* The second attempt started, wrote output and exited.
C15_Witness ==
    /\ attemptNumber = 2
    /\ emitted = <<"started", "output", "exited">>

\* The lines followed by their terminators, in order.
RECURSIVE Rejoin(_)
Rejoin(lines) ==
    IF lines = <<>> THEN <<>> ELSE Head(lines) \o <<"nl">> \o Rejoin(Tail(lines))

\* The characters of a sequence.
Range(seq) == {seq[i] : i \in DOMAIN seq}

\* C16: whatever the interleaving of the chunks of the two streams, the lines
\* delivered for a stream are that stream's output in the order written:
\* while the stream is open, the delivered lines with their terminators,
\* followed by the buffered partial line, are exactly what was written; once
\* the exit handler flushed, nothing is buffered and the delivered lines are
\* exactly what was written, a final unterminated line being the last line,
\* delivered once.
C16_PerStreamOrderAndFinalFlush ==
    \A s \in Streams :
        /\ \A i \in DOMAIN delivered[s] : "nl" \notin Range(delivered[s][i])
        /\ "nl" \notin Range(buffer[s])
        /\ IF ~flushed
           THEN Rejoin(delivered[s]) \o buffer[s] = text[s]
           ELSE /\ buffer[s] = <<>>
                /\ \/ Rejoin(delivered[s]) = text[s]
                   \/ /\ delivered[s] # <<>>
                      /\ delivered[s][Len(delivered[s])] # <<>>
                      /\ Rejoin(SubSeq(delivered[s], 1, Len(delivered[s]) - 1))
                            \o delivered[s][Len(delivered[s])] = text[s]

\* The two streams were written interleaved, each ended in an unterminated
\* line (on stderr one that came in two chunks), and the exit handler flushed.
C16_Witness ==
    /\ flushed
    /\ text["stdout"] = <<"a", "nl", "b">>
    /\ text["stderr"] = <<"a", "a">>
    /\ delivered["stdout"] = << <<"a">>, <<"b">> >>
    /\ delivered["stderr"] = << <<"a", "a">> >>

\* The bounds of the retry counter: it stays within a non-negative maximum
\* and is the number of relaunches or one more.
RetryCounterBounds ==
    /\ respawn_max_retries >= 0 => respawn_retries <= respawn_max_retries
    /\ relaunches <= respawn_retries
    /\ respawn_retries <= relaunches + 1

\* C21 as stated: the retry counter never decreases, never exceeds a
\* non-negative maxRetries, is the number of relaunches or one more, and is
\* one more exactly when a shutdown arrived during a respawn delay.
C21_RetryCounterAsStated ==
    [][/\ respawn_retries' >= respawn_retries
       /\ RetryCounterBounds'
       /\ (respawn_retries' = relaunches' + 1) <=> delayInterrupted'
      ]_vars

\* C21 amended: the retry counter never decreases, never exceeds a
\* non-negative maxRetries, is the number of relaunches or one more, and is
\* one more exactly while the task waits out a respawn delay and once a
\* shutdown arrived during that wait.
C21_RetryCounterTracksRelaunches ==
    [][/\ respawn_retries' >= respawn_retries
       /\ RetryCounterBounds'
       /\ (respawn_retries' = relaunches' + 1)
              <=> (pc' = "delay" \/ delayInterrupted')
      ]_vars

\* After one relaunch a shutdown arrived during the next respawn delay and
\* the task ended: the retry that was counted was abandoned.
C21_Witness ==
    /\ pc = "done" /\ delayInterrupted
    /\ relaunches = 1 /\ respawn_retries = 2

\* C22: when the set-up of execute raises after the handlers were
\* registered, the call leaves no handler of the controller registered and
\* no monitoring task, while the controller counts as executed; a later
\* execute raises the double-execution error and changes none of this; a
\* controller that was executed without creating a task never gets a handler
\* or a task.
C22_FailedSetUpUnregistersHandlers ==
    [][/\ lastResult' = "raised"
            => (handlers' = {} /\ pc' = "none" /\ executed'
                /\ attemptNumber' = 0)
       /\ (lastResult = "raised" /\ executeCalls' # executeCalls)
            => (lastResult' = "RuntimeError" /\ handlers' = {}
                /\ pc' = "none")
       /\ (executed' /\ attemptNumber' = 0)
            => (handlers' = {} /\ pc' = "none")
      ]_vars

\* The set-up raised after both futures were created, and a second execute
\* raised the double-execution error.
C22_Witness ==
    /\ lastResult = "RuntimeError" /\ executeCalls = 2
    /\ ~is_shutdown
    /\ completed_future = "pending" /\ shutdown_future = "pending"
    /\ handlers = {} /\ pc = "none" /\ attemptNumber = 0

====
